---- MODULE Spec2Model ----
(***************************************************************************)
(* BIP-39 mnemonic codec (go-bip39): entropy -> mnemonic marshalling,      *)
(* mnemonic -> checksummed entropy unmarshalling, seed derivation and      *)
(* entropy generation, modelled from encoder.go and the package-level      *)
(* wrappers.                                                               *)
(*                                                                         *)
(* Representation                                                          *)
(*   []byte   a sequence of 0..255; nil and the empty slice are <<>>       *)
(*   string   a sequence of one-character strings; "" is <<>>              *)
(*            (a character above U+00FF, which a string of the module      *)
(*            cannot hold, is written as its code point, "U+3000")         *)
(*   big.Int  its magnitude as math/big keeps it: a little-endian sequence *)
(*            of words with no leading zero word (here 16-bit words, since *)
(*            the model checker's integers are 32 bits)                    *)
(*   uint32   (inside SHA-256) a pair <<high 16 bits, low 16 bits>>        *)
(***************************************************************************)
EXTENDS Integers, Sequences, FiniteSets, TLC

VARIABLES
    bigInts,    \* the package-level big.Int variables (encoder.go:42-45), by name
    op,         \* Spec: the call that returned last ("none" before any)
    arg,        \* Spec: the arguments of that call
    ret,        \* Spec: the value it returned
    err,        \* Spec: the error it returned
    hashed,     \* Spec: how many times it ran addChecksum
    derived,    \* Spec: how many times it ran createSeedHash
    entropy,    \* Spec: the caller's entropy buffer, which it hands to MarshalEntropy
    mnemonic,   \* Spec: the caller's mnemonic string, which it hands to UnmarshalEntropy and NewSeed
    origin,     \* Spec: how the caller came by `mnemonic` (history)
    frames      \* SpecConc: each goroutine's call in progress

vars == <<bigInts, op, arg, ret, err, hashed, derived, entropy, mnemonic, origin, frames>>

----------------------------------------------------------------------------
(* Arithmetic on machine integers *)

Pow2(n) == 2 ^ n

\* Go's remainder truncates toward zero: the result has the dividend's sign.
goRem(a, b) == IF a >= 0 THEN a % b ELSE 0 - ((0 - a) % b)

Max(S) == CHOOSE m \in S : \A k \in S : k <= m

RECURSIVE xorBits(_, _)
xorBits(a, b) ==
    IF a = 0 THEN b
    ELSE IF b = 0 THEN a
    ELSE ((a + b) % 2) + 2 * xorBits(a \div 2, b \div 2)

RECURSIVE andBits(_, _)
andBits(a, b) ==
    IF a = 0 \/ b = 0 THEN 0
    ELSE (a % 2) * (b % 2) + 2 * andBits(a \div 2, b \div 2)

\* Byte-by-byte tables of ^ and &, computed once.
xorTable == [a \in 1..256 |-> [b \in 1..256 |-> xorBits(a - 1, b - 1)] \o <<>>] \o <<>>
andTable == [a \in 1..256 |-> [b \in 1..256 |-> andBits(a - 1, b - 1)] \o <<>>] \o <<>>

xor16(a, b) ==
    xorTable[(a \div 256) + 1][(b \div 256) + 1] * 256 + xorTable[(a % 256) + 1][(b % 256) + 1]
and16(a, b) ==
    andTable[(a \div 256) + 1][(b \div 256) + 1] * 256 + andTable[(a % 256) + 1][(b % 256) + 1]
or16(a, b) == xor16(a, b) + and16(a, b)

----------------------------------------------------------------------------
(* crypto/sha256 over one block: every message hashed here is at most 32   *)
(* bytes (addChecksum's argument), and one block holds up to 55.           *)

xor32(u, v) == <<xor16(u[1], v[1]), xor16(u[2], v[2])>>
and32(u, v) == <<and16(u[1], v[1]), and16(u[2], v[2])>>
not32(u) == <<65535 - u[1], 65535 - u[2]>>
add32(u, v) ==
    LET lo == u[2] + v[2]
        hi == u[1] + v[1] + (lo \div 65536)
    IN  <<hi % 65536, lo % 65536>>

RECURSIVE rotr32(_, _)
rotr32(u, n) ==
    IF n = 0 THEN u
    ELSE IF n >= 16 THEN rotr32(<<u[2], u[1]>>, n - 16)
    ELSE <<(u[1] \div Pow2(n)) + (u[2] % Pow2(n)) * Pow2(16 - n),
           (u[2] \div Pow2(n)) + (u[1] % Pow2(n)) * Pow2(16 - n)>>

shr32(u, n) ==
    IF n >= 16 THEN <<0, u[1] \div Pow2(n - 16)>>
    ELSE <<u[1] \div Pow2(n), (u[2] \div Pow2(n)) + (u[1] % Pow2(n)) * Pow2(16 - n)>>

sha256K ==
    <<
       <<17034, 12184>>, <<28983, 17553>>, <<46528, 64463>>, <<59829, 56229>>,
       <<14678, 49755>>, <<23025, 4593>>, <<37439, 33444>>, <<43804, 24277>>,
       <<55303, 43672>>, <<4739, 23297>>, <<9265, 34238>>, <<21772, 32195>>,
       <<29374, 23924>>, <<32990, 45566>>, <<39900, 1703>>, <<49563, 61812>>,
       <<58523, 27073>>, <<61374, 18310>>, <<4033, 40390>>, <<9228, 41420>>,
       <<11753, 11375>>, <<19060, 33962>>, <<23728, 43484>>, <<30457, 35034>>,
       <<38974, 20818>>, <<43057, 50797>>, <<45059, 10184>>, <<48985, 32711>>,
       <<50912, 3059>>, <<54695, 37191>>, <<1738, 25425>>, <<5161, 10599>>,
       <<10167, 2693>>, <<11803, 8504>>, <<19756, 28156>>, <<21304, 3347>>,
       <<25866, 29524>>, <<30314, 2747>>, <<33218, 51502>>, <<37490, 11397>>,
       <<41663, 59553>>, <<43034, 26187>>, <<49739, 35696>>, <<51052, 20899>>,
       <<53650, 59417>>, <<54937, 1572>>, <<62478, 13701>>, <<4202, 41072>>,
       <<6564, 49430>>, <<7735, 27656>>, <<10056, 30540>>, <<13488, 48309>>,
       <<14620, 3251>>, <<20184, 43594>>, <<23452, 51791>>, <<26670, 28659>>,
       <<29839, 33518>>, <<30885, 25455>>, <<33992, 30740>>, <<36039, 520>>,
       <<37054, 65530>>, <<42064, 27883>>, <<48889, 41975>>, <<50801, 30962>> >>

sha256IV ==
    <<
       <<27145, 58983>>, <<47975, 44677>>, <<15470, 62322>>, <<42319, 62778>>,
       <<20750, 21119>>, <<39685, 26764>>, <<8067, 55723>>, <<23520, 52505>> >>

sha256Pad(data) ==
    LET n == Len(data)
        bits == n * 8
    IN  data \o <<128>> \o [i \in 1..(55 - n) |-> 0]
             \o <<0, 0, 0, 0, 0, 0, bits \div 256, bits % 256>>

blockWord(blk, t) ==
    <<blk[4 * t + 1] * 256 + blk[4 * t + 2], blk[4 * t + 3] * 256 + blk[4 * t + 4]>>

\* The message schedule w[0..63], kept as a sequence (w[t] is element t + 1).
RECURSIVE sha256Schedule(_, _)
sha256Schedule(w, t) ==
    IF t = 64 \/ Len(w) # t THEN w
    ELSE LET v1 == w[t - 1]
             v0 == w[t - 14]
             s0 == xor32(xor32(rotr32(v0, 7), rotr32(v0, 18)), shr32(v0, 3))
             s1 == xor32(xor32(rotr32(v1, 17), rotr32(v1, 19)), shr32(v1, 10))
         IN  sha256Schedule(Append(w, add32(add32(add32(s1, w[t - 6]), s0), w[t - 15])), t + 1)

\* Rounds t .. to-1 of the compression function on the working variables s.
RECURSIVE sha256Rounds(_, _, _, _)
sha256Rounds(s, w, t, to) ==
    IF t = to \/ Len(s) # 8 THEN s
    ELSE LET a == s[1] b == s[2] c == s[3] d == s[4]
             e == s[5] f == s[6] g == s[7] h == s[8]
             S1 == xor32(xor32(rotr32(e, 6), rotr32(e, 11)), rotr32(e, 25))
             ch == xor32(and32(e, f), and32(not32(e), g))
             t1 == add32(add32(add32(add32(h, S1), ch), sha256K[t + 1]), w[t + 1])
             S0 == xor32(xor32(rotr32(a, 2), rotr32(a, 13)), rotr32(a, 22))
             mj == xor32(xor32(and32(a, b), and32(a, c)), and32(b, c))
             t2 == add32(S0, mj)
         IN  sha256Rounds(<<add32(t1, t2), a, b, c, add32(d, t1), e, f, g>>, w, t + 1, to)

\* The digest bytes of the eight chaining words h.
sha256Bytes(h) ==
    [i \in 1..32 |->
        LET half == h[((i - 1) \div 4) + 1][(((i - 1) % 4) \div 2) + 1]
        IN  IF i % 2 = 1 THEN half \div 256 ELSE half % 256] \o <<>>

\* The compression of the one block whose message schedule is w.
sha256Block(w) ==
    LET s1 == sha256Rounds(sha256IV, w, 0, 16)
        s2 == sha256Rounds(s1, w, 16, 32)
        s3 == sha256Rounds(s2, w, 32, 48)
        s4 == sha256Rounds(s3, w, 48, 64)
    IN  sha256Bytes([i \in 1..8 |-> add32(sha256IV[i], s4[i])] \o <<>>)

sha256Words(blk) == [t \in 1..16 |-> blockWord(blk, t - 1)] \o <<>>

\* hasher.Sum(nil) after hasher.Write(data): the 32 digest bytes.
sha256Sum(data) == sha256Block(sha256Schedule(sha256Words(sha256Pad(data)), 16))

----------------------------------------------------------------------------
(* math/big: the magnitude of a big.Int *)

wordBase == Pow2(16)

natLimb(x, i) == IF i <= Len(x) THEN x[i] ELSE 0

\* nat.norm: drop the leading (most significant) zero words.
natNorm(x) ==
    LET nz == {i \in 1..Len(x) : x[i] # 0}
    IN  IF nz = {} THEN <<>> ELSE SubSeq(x, 1, Max(nz))

\* (*Int).SetBytes: buf is a big-endian unsigned integer.
natSetBytes(buf) ==
    LET n == Len(buf)
        B(k) == IF k < n THEN buf[n - k] ELSE 0
    IN  natNorm([j \in 1..((n + 1) \div 2) |-> B(2 * j - 2) + 256 * B(2 * j - 1)])

\* (*Int).Bytes: the big-endian bytes without leading zero bytes; <<>> for 0.
natBytes(x) ==
    LET m == Len(x)
        full == [i \in 1..(2 * m) |->
                    LET limb == x[m - ((i - 1) \div 2)]
                    IN  IF i % 2 = 1 THEN limb \div 256 ELSE limb % 256]
    IN  IF m = 0 THEN <<>>
        ELSE IF full[1] = 0 THEN SubSeq(full, 2, 2 * m)
        ELSE SubSeq(full, 1, 2 * m)

\* big.NewInt(n) for 0 <= n < 2^31
natNewInt(n) == natNorm(<<n % wordBase, n \div wordBase>>)

\* Int64 of a value below 2^31
natInt(x) == natLimb(x, 1) + wordBase * natLimb(x, 2)

RECURSIVE natAddFrom(_, _, _, _, _)
natAddFrom(x, y, i, c, z) ==
    IF Len(z) # i - 1 THEN z
    ELSE IF i > Len(x) /\ i > Len(y) THEN (IF c = 0 THEN z ELSE Append(z, c))
    ELSE LET s == natLimb(x, i) + natLimb(y, i) + c
         IN  natAddFrom(x, y, i + 1, s \div wordBase, Append(z, s % wordBase))

natAdd(x, y) == natAddFrom(x, y, 1, 0, <<>>)

\* x * w + carry, word by word, for one word w; the 32-bit product is formed
\* in two halves of w so that no intermediate exceeds 2^31.
RECURSIVE natMulAddW(_, _, _, _, _)
natMulAddW(x, w, i, c, z) ==
    IF Len(z) # i - 1 THEN z
    ELSE IF i > Len(x) THEN (IF c = 0 THEN z ELSE Append(z, c))
    ELSE LET a == x[i] * (w % 256) + c
             b == x[i] * (w \div 256)
             t == a + 256 * (b % 256)
         IN  natMulAddW(x, w, i + 1, (b \div 256) + (t \div wordBase), Append(z, t % wordBase))

natMulW(x, w) == IF w = 0 THEN <<>> ELSE natMulAddW(x, w, 1, 0, <<>>)

natShlWord(x) == IF x = <<>> THEN <<>> ELSE <<0>> \o x

RECURSIVE natMul(_, _)
natMul(x, y) ==
    IF x = <<>> \/ y = <<>> THEN <<>>
    ELSE natAdd(natMulW(x, y[1]), natShlWord(natMul(x, Tail(y))))

\* x div w for one word w > 0, from the most significant word down; each
\* word is divided in two byte steps so that no intermediate exceeds 2^31.
RECURSIVE natDivWFrom(_, _, _, _, _)
natDivWFrom(x, w, i, r, z) ==
    IF Len(z) # Len(x) - i \/ i = 0 THEN z
    ELSE LET t1 == r * 256 + (x[i] \div 256)
             t2 == (t1 % w) * 256 + (x[i] % 256)
         IN  natDivWFrom(x, w, i - 1, t2 % w, <<(t1 \div w) * 256 + (t2 \div w)>> \o z)

natDivW(x, w) == natNorm(natDivWFrom(x, w, Len(x), 0, <<>>))

\* x div y for a divisor of one significant word (w * 2^(16k)): every divisor
\* of this package is 2048 or a power of two.
natDiv(x, y) == natDivW(SubSeq(x, Len(y), Len(x)), y[Len(y)])

natAnd(x, y) ==
    LET n == IF Len(x) < Len(y) THEN Len(x) ELSE Len(y)
    IN  natNorm([i \in 1..n |-> and16(x[i], y[i])])

natOr(x, y) ==
    LET n == IF Len(x) < Len(y) THEN Len(y) ELSE Len(x)
    IN  [i \in 1..n |-> or16(natLimb(x, i), natLimb(y, i))] \o <<>>

RECURSIVE natExpN(_, _)
natExpN(x, n) == IF n = 0 THEN <<1>> ELSE natMul(natExpN(x, n - 1), x)

(* The methods z.Op(x, y) on a store m of big.Int objects by name: the      *)
(* receiver z is overwritten, the operands x and y are read.               *)
bigAnd(m, z, x, y) == [m EXCEPT ![z] = natAnd(m[x], m[y])]
bigOr(m, z, x, y) == [m EXCEPT ![z] = natOr(m[x], m[y])]
bigMul(m, z, x, y) == [m EXCEPT ![z] = natMul(m[x], m[y])]
bigAdd(m, z, x, y) == [m EXCEPT ![z] = natAdd(m[x], m[y])]
bigDiv(m, z, x, y) == [m EXCEPT ![z] = natDiv(m[x], m[y])]
\* z.Exp(x, y, nil)
bigExp(m, z, x, y) == [m EXCEPT ![z] = natExpN(m[x], natInt(m[y]))]
\* new(big.Int).SetBytes(buf), big.NewInt(n): a fresh object named z
bigSetBytes(m, z, buf) == [m EXCEPT ![z] = natSetBytes(buf)]
bigNewInt(m, z, n) == [m EXCEPT ![z] = natNewInt(n)]

PackageNames == {"bigOne", "bigTwo", "last11BitsMask", "rightShift11BitsDivider"}
LocalNames == {"entropyInt", "word", "checksummedEntropy", "index",
               "checksumBitSize", "checksumModulo", "rawEntropy", "dataBigInt"}

\* encoder.go:42-45
PackageBigInts ==
    [bigOne |-> natNewInt(1), bigTwo |-> natNewInt(2),
     last11BitsMask |-> natNewInt(2047), rightShift11BitsDivider |-> natNewInt(2048)]

NoLocals == [n \in LocalNames |-> <<>>]

----------------------------------------------------------------------------
(* Errors, byte slices, strings *)

nilError == "nil"
ErrEntropyLengthInvalid == "ErrEntropyLengthInvalid"
ErrMnemonicLengthInvalid == "ErrMnemonicLengthInvalid"
ErrMnemonicWordInvalid == "ErrMnemonicWordInvalid"
ErrChecksumIncorrect == "ErrChecksumIncorrect"
\* the error of crypto/rand.Read
ErrRandomSource == "ErrRandomSource"
\* a run-time panic (index out of range)
Panic == "panic"

nil == <<>>
EmptyString == <<>>

\* padByteSlice returns a byte slice of the given size with contents of the
\* given slice left padded and any empty spaces filled with 0's.
padByteSlice(slice, length) ==
    IF Len(slice) >= length THEN slice
    ELSE [i \in 1..(length - Len(slice)) |-> 0] \o slice

\* Faulty variant of compareByteSlices: the loop over the contents left out.
compareByteSlicesLengthOnly(a, b) == Len(a) = Len(b)

\* compareByteSlices returns true of the byte slices have equal contents.
compareByteSlices(a, b) ==
    IF Len(a) # Len(b) THEN FALSE
    ELSE \A i \in 1..Len(a) : a[i] = b[i]

\* binary.BigEndian.Uint16
bigEndianUint16(b) == b[1] * 256 + b[2]

\* The white space characters that have no escape in a string: U+000B (line
\* tabulation, Go's '\v'), U+0085 (next line), U+00A0 (no-break space).
verticalTab == ""
nextLine == ""
noBreakSpace == " "

\* unicode.IsSpace: in Latin-1 '\t', '\n', '\v', '\f', '\r', ' ', U+0085 and
\* U+00A0; above it the characters of the White_Space property.
isSpace(c) ==
    c \in {"\t", "\n", verticalTab, "\f", "\r", " ", nextLine, noBreakSpace,
           "U+1680", "U+2000", "U+2001", "U+2002", "U+2003", "U+2004", "U+2005", "U+2006",
           "U+2007", "U+2008", "U+2009", "U+200A", "U+2028", "U+2029", "U+202F", "U+205F",
           "U+3000"}

\* The first position j in i..Len(s) where s[j] is (space = TRUE) or is not
\* (space = FALSE) white space; Len(s) + 1 when there is none.
scan(s, i, space) ==
    CHOOSE j \in i..(Len(s) + 1) :
        /\ j = Len(s) + 1 \/ isSpace(s[j]) = space
        /\ \A k \in i..(j - 1) : isSpace(s[k]) # space

\* strings.Fields: the maximal runs of non-space characters, in order.
RECURSIVE fieldsFrom(_, _, _)
fieldsFrom(s, i, acc) ==
    LET start == scan(s, i, FALSE)
        stop == scan(s, start, TRUE)
    IN  IF Len(acc) < 0 \/ start > Len(s) THEN acc
        ELSE fieldsFrom(s, stop, Append(acc, SubSeq(s, start, stop - 1)))

stringsFields(s) == fieldsFrom(s, 1, <<>>)

\* strings.Join
RECURSIVE joinFrom(_, _, _, _)
joinFrom(elems, sep, i, acc) ==
    IF Len(acc) < 0 \/ i > Len(elems) THEN acc
    ELSE joinFrom(elems, sep, i + 1, acc \o sep \o elems[i])

stringsJoin(elems, sep) ==
    IF Len(elems) = 0 THEN EmptyString ELSE joinFrom(elems, sep, 2, elems[1])

\* pbkdf2.Key(password, salt, iter, keyLen, h): the derived key, kept as the
\* term of its arguments (equal arguments give equal keys, and only they do).
pbkdf2Key(pw, salt, iter, keyLen, h) == <<"pbkdf2.Key", pw, salt, iter, keyLen, h>>

\* createSeedHash calculates a seed hash from an arbitrary string.
createSeedHash(mnemonicStr, passwordStr) ==
    pbkdf2Key(mnemonicStr, <<"m", "n", "e", "m", "o", "n", "i", "c">> \o passwordStr,
              2048, 64, "sha512.New")

----------------------------------------------------------------------------
(* Word lists and encoders *)

WordListSize == Pow2(11)

Letters == <<"a", "b", "c", "d", "e", "f", "g", "h", "i", "j", "k", "l", "m", "n", "o", "p">>

\* 2048 distinct three-letter words, and 2048 distinct four-letter words, in
\* the place of the package's word lists (index 0 .. 2047, as a Go slice).
wordlistsEnglish ==
    [i \in 0..(WordListSize - 1) |->
        <<Letters[(i \div 256) + 1], Letters[((i \div 16) % 16) + 1], Letters[(i % 16) + 1]>>]

wordlistsSpanish ==
    [i \in 0..(WordListSize - 1) |-> <<"s">> \o wordlistsEnglish[WordListSize - 1 - i]]

\* for i, v := range wordList { e.wordMap[v] = i }: a later index overwrites
\* an earlier one (f @@ g keeps f where both are defined).
RECURSIVE rangeWordMap(_, _, _)
rangeWordMap(wordList, lo, hi) ==
    IF lo > hi THEN <<>>
    ELSE IF lo = hi THEN (wordList[lo] :> lo)
    ELSE LET mid == (lo + hi) \div 2
         IN  rangeWordMap(wordList, mid + 1, hi) @@ rangeWordMap(wordList, lo, mid)

NewEncoder(wordList) ==
    [wordList |-> wordList,
     wordMap |-> rangeWordMap(wordList, 0, Cardinality(DOMAIN wordList) - 1)]

English == NewEncoder(wordlistsEnglish)
Spanish == NewEncoder(wordlistsSpanish)
DefaultEncoder == "English"

EncoderNames == {"English", "Spanish"}
Encoder(name) == IF name = "English" THEN English ELSE Spanish

----------------------------------------------------------------------------
(* A call in progress: the frame f of one goroutine (its arguments, its    *)
(* position pc, its locals, and at pc = "done" what it returned) and the   *)
(* package-level big.Int variables g it shares with every other call.      *)
(* Each operator below is one stretch of the source between two positions  *)
(* and gives the frame and the package variables after it.                 *)

Args(bitSize, rand, entropyArg, mnemonicArg, passwordArg) ==
    [bitSize |-> bitSize, rand |-> rand, entropy |-> entropyArg,
     mnemonic |-> mnemonicArg, password |-> passwordArg]

Frame(fn, enc, a) ==
    [fn |-> fn, enc |-> enc, arg |-> a,
     pc |-> CASE fn = "NewEntropy" -> "newEntropy"
              [] fn = "MarshalEntropy" -> "marshalEntry"
              [] OTHER -> "unmarshalEntry",
     i |-> 0, words |-> <<>>, mnemonicSlice |-> <<>>, big |-> NoLocals,
     hashed |-> 0, derived |-> 0, ret |-> nil, err |-> nilError]

\* The big.Int objects a call can name: the package's and its own.
store(f, g) ==
    [bigOne |-> g.bigOne, bigTwo |-> g.bigTwo, last11BitsMask |-> g.last11BitsMask,
     rightShift11BitsDivider |-> g.rightShift11BitsDivider,
     entropyInt |-> f.big.entropyInt, word |-> f.big.word,
     checksummedEntropy |-> f.big.checksummedEntropy, index |-> f.big.index,
     checksumBitSize |-> f.big.checksumBitSize, checksumModulo |-> f.big.checksumModulo,
     rawEntropy |-> f.big.rawEntropy, dataBigInt |-> f.big.dataBigInt]

packageOf(m) ==
    [bigOne |-> m.bigOne, bigTwo |-> m.bigTwo, last11BitsMask |-> m.last11BitsMask,
     rightShift11BitsDivider |-> m.rightShift11BitsDivider]

localsOf(m) ==
    [entropyInt |-> m.entropyInt, word |-> m.word,
     checksummedEntropy |-> m.checksummedEntropy, index |-> m.index,
     checksumBitSize |-> m.checksumBitSize, checksumModulo |-> m.checksumModulo,
     rawEntropy |-> m.rawEntropy, dataBigInt |-> m.dataBigInt]

\* return val, err
return(f, g, val, e) == [f |-> [f EXCEPT !.pc = "done", !.ret = val, !.err = e], g |-> g]

\* The frame and the package variables once the store is m.
stored(f, m) == [f |-> [f EXCEPT !.big = localsOf(m)], g |-> packageOf(m)]

\* return val, err, the store being m
returnStored(f, m, val, e) == return([f EXCEPT !.big = localsOf(m)], packageOf(m), val, e)

\* Faulty variant of validateEntropyBitSize: the test bitSize%32 left out.
validateEntropyBitSizeRangeOnly(bitSize) ==
    IF bitSize < 128 \/ bitSize > 256 THEN ErrEntropyLengthInvalid ELSE nilError

\* validateEntropyBitSize ensures that entropy is the correct size for being a
\* mnemonic.
validateEntropyBitSize(bitSize) ==
    IF goRem(bitSize, 32) # 0 \/ bitSize < 128 \/ bitSize > 256
    THEN ErrEntropyLengthInvalid
    ELSE nilError

\* rand.Read(b) for a source that delivers rand.n bytes (all of them when
\* rand.n >= Len(b)): the bytes of b after the call.
randRead(b, rand) ==
    [i \in 1..Len(b) |-> IF i <= rand.n THEN rand.bytes[i] ELSE b[i]] \o <<>>

randReadErr(b, rand) == IF rand.n >= Len(b) THEN nilError ELSE ErrRandomSource

\* NewEntropy will create random entropy bytes.
newEntropy(f, g) ==
    LET bitSize == f.arg.bitSize
        verr == validateEntropyBitSize(bitSize)
        made == [i \in 1..(bitSize \div 8) |-> 0]
    IN  IF verr # nilError THEN return(f, g, nil, verr)
        ELSE return(f, g, randRead(made, f.arg.rand), randReadErr(made, f.arg.rand))

\* Faulty variant of checksumBit: the checksum bits taken from the low end of
\* the byte, firstChecksumByte & (1 << i).
checksumBitFromLow(firstChecksumByte, i) ==
    IF i <= 7 THEN andBits(firstChecksumByte, Pow2(i)) ELSE 0

\* firstChecksumByte & (1 << (7 - i)) for the unsigned i of the loop: past
\* i = 7 the shift count wraps around and the byte-wide shift gives 0.
checksumBit(firstChecksumByte, i) ==
    IF i <= 7 THEN andBits(firstChecksumByte, Pow2(7 - i)) ELSE 0

\* dataBigInt.Or(dataBigInt, bigOne) when the checksum bit is set
orChecksumBit(m, bit) ==
    IF bit > 0 THEN bigOr(m, "dataBigInt", "dataBigInt", "bigOne") ELSE m

RECURSIVE addChecksumLoop(_, _, _, _)
addChecksumLoop(m, firstChecksumByte, i, checksumBitLength) ==
    IF i >= checksumBitLength THEN m
    ELSE addChecksumLoop(orChecksumBit(bigMul(m, "dataBigInt", "dataBigInt", "bigTwo"),
                                       checksumBit(firstChecksumByte, i)),
                         firstChecksumByte, i + 1, checksumBitLength)

\* return dataBigInt.Bytes(), with the store the call leaves
addChecksumReturn(m) == [m |-> m, bytes |-> natBytes(m.dataBigInt)]

\* addChecksum appends to data the first (len(data) / 32)bits of the result of
\* sha256(data); m is the store it runs on, and m.dataBigInt its local.
addChecksum(m, data) ==
    addChecksumReturn(addChecksumLoop(bigSetBytes(m, "dataBigInt", data),
                                      sha256Sum(data)[1], 0, Len(data) \div 4))

\* MarshalEntropy after entropy = addChecksum(entropy) returned ac (lines 90-98)
marshalSetUp(f, sentenceLength, ac) ==
    stored([f EXCEPT !.pc = "marshalLoop", !.hashed = @ + 1, !.i = sentenceLength - 1,
                     !.words = [k \in 1..sentenceLength |-> EmptyString] \o <<>>],
           bigNewInt(bigSetBytes(ac.m, "entropyInt", ac.bytes), "word", 0))

\* MarshalEntropy, from its entry to the head of the loop (lines 70-98)
marshalEntry(f, g) ==
    LET entropyBitLength == Len(f.arg.entropy) * 8
        checksumBitLength == entropyBitLength \div 32
        sentenceLength == (entropyBitLength + checksumBitLength) \div 11
        verr == validateEntropyBitSize(entropyBitLength)
    IN  IF verr # nilError THEN return(f, g, EmptyString, verr)
        ELSE marshalSetUp(f, sentenceLength, addChecksum(store(f, g), f.arg.entropy))

\* The loop body after word.And and entropyInt.Div left the store m
\* (lines 103-107); words[i] of the source is f.words[i + 1].
marshalWord(f, e, m) ==
    LET wordBytes == padByteSlice(natBytes(m.word), 2)
        idx == bigEndianUint16(wordBytes)
    IN  IF idx \notin DOMAIN e.wordList THEN returnStored(f, m, EmptyString, Panic)
        ELSE stored([f EXCEPT !.i = @ - 1, !.words[f.i + 1] = e.wordList[idx]], m)

\* MarshalEntropy, one test of the loop and either its body or the return
\* (lines 98-110)
marshalLoop(f, g) ==
    IF f.i < 0 THEN return(f, g, stringsJoin(f.words, <<" ">>), nilError)
    ELSE marshalWord(f, Encoder(f.enc),
                     bigDiv(bigAnd(store(f, g), "word", "entropyInt", "last11BitsMask"),
                            "entropyInt", "entropyInt", "rightShift11BitsDivider"))

\* Faulty variant of unmarshalWordCountOk: the test wordCount%3 left out.
unmarshalWordCountOkRangeOnly(wordCount) == ~(wordCount < 12 \/ wordCount > 24)

\* The test of line 125
unmarshalWordCountOk(wordCount) == ~(wordCount % 3 # 0 \/ wordCount < 12 \/ wordCount > 24)

\* UnmarshalEntropy, from its entry to the head of the loop (lines 114-131)
unmarshalEntry(f, g) ==
    LET mnemonicSlice == stringsFields(f.arg.mnemonic)
        wordCount == Len(mnemonicSlice)
    IN  IF ~unmarshalWordCountOk(wordCount)
        THEN return(f, g, nil, ErrMnemonicLengthInvalid)
        ELSE stored([f EXCEPT !.pc = "unmarshalLoop", !.mnemonicSlice = mnemonicSlice, !.i = 0],
                    bigNewInt(store(f, g), "checksummedEntropy", 0))

\* The lengths UnmarshalEntropy computes from the word count (lines 118-121)
unmarshalChecksumBitSize(wordCount) == (wordCount * 11) % 32
unmarshalFullByteSize(wordCount) ==
    (((wordCount * 11) - unmarshalChecksumBitSize(wordCount)) \div 8) + 1
\* Faulty variant of unmarshalChecksumByteSize: the extra byte not cut off.
unmarshalChecksumByteSizeUnaligned(wordCount) == unmarshalFullByteSize(wordCount)

unmarshalChecksumByteSize(wordCount) ==
    unmarshalFullByteSize(wordCount) - (unmarshalFullByteSize(wordCount) % 4)

\* Faulty variant of unmarshalCompare: the raw entropy returned in place of
\* the checksummed entropy.
unmarshalCompareRaw(f, checksummedEntropyBytes, fullByteSize, ac) ==
    IF ~compareByteSlices(checksummedEntropyBytes, padByteSlice(ac.bytes, fullByteSize))
    THEN returnStored([f EXCEPT !.hashed = @ + 1], ac.m, nil, ErrChecksumIncorrect)
    ELSE returnStored([f EXCEPT !.hashed = @ + 1], ac.m,
                      padByteSlice(natBytes(ac.m.rawEntropy), fullByteSize - 1), nilError)

\* The comparison and the return (lines 150-155), addChecksum having
\* returned ac
unmarshalCompare(f, checksummedEntropyBytes, fullByteSize, ac) ==
    IF ~compareByteSlices(checksummedEntropyBytes, padByteSlice(ac.bytes, fullByteSize))
    THEN returnStored([f EXCEPT !.hashed = @ + 1], ac.m, nil, ErrChecksumIncorrect)
    ELSE returnStored([f EXCEPT !.hashed = @ + 1], ac.m, checksummedEntropyBytes, nilError)

\* The padded byte slices and the call of addChecksum (lines 145-150), the
\* store being m
unmarshalPad(f, m) ==
    LET wordCount == Len(f.mnemonicSlice)
    IN  unmarshalCompare(f,
            padByteSlice(natBytes(m.checksummedEntropy), unmarshalFullByteSize(wordCount)),
            unmarshalFullByteSize(wordCount),
            addChecksum(m, padByteSlice(natBytes(m.rawEntropy),
                                        unmarshalChecksumByteSize(wordCount))))

\* UnmarshalEntropy, from the end of the loop to the return (lines 140-155)
unmarshalCheck(f, g) ==
    unmarshalPad(f,
        bigDiv(bigNewInt(
                 bigExp(bigNewInt(
                          bigNewInt(store(f, g), "checksumBitSize",
                                    unmarshalChecksumBitSize(Len(f.mnemonicSlice))),
                          "checksumModulo", 0),
                        "checksumModulo", "bigTwo", "checksumBitSize"),
                 "rawEntropy", 0),
               "rawEntropy", "checksummedEntropy", "checksumModulo"))

\* Faulty variant of unmarshalWord: the product kept in the package's
\* rightShift11BitsDivider, rightShift11BitsDivider.Mul(checksummedEntropy,
\* rightShift11BitsDivider), and added from there.
unmarshalWordInPlace(f, g, index) ==
    stored([f EXCEPT !.i = @ + 1],
           bigAdd(bigNewInt(bigMul(store(f, g), "rightShift11BitsDivider", "checksummedEntropy",
                                   "rightShift11BitsDivider"),
                            "index", index),
                  "checksummedEntropy", "rightShift11BitsDivider", "index"))

\* The loop body for the word v of the word list (lines 136-137)
unmarshalWord(f, g, index) ==
    stored([f EXCEPT !.i = @ + 1],
           bigAdd(bigNewInt(bigMul(store(f, g), "checksummedEntropy", "checksummedEntropy",
                                   "rightShift11BitsDivider"),
                            "index", index),
                  "checksummedEntropy", "checksummedEntropy", "index"))

\* Faulty variant of unmarshalLoop: the map read without its found result,
\* index := e.wordMap[v], which is 0 for a word the map does not hold.
unmarshalLoopZeroValue(f, g) ==
    LET e == Encoder(f.enc)
        v == f.mnemonicSlice[f.i + 1]
    IN  IF f.i >= Len(f.mnemonicSlice) THEN unmarshalCheck(f, g)
        ELSE unmarshalWord(f, g, IF v \in DOMAIN e.wordMap THEN e.wordMap[v] ELSE 0)

\* UnmarshalEntropy, one step of the range loop: its body for the next word,
\* or past the last word the rest of the function (lines 131-155);
\* mnemonicSlice[i] of the source is f.mnemonicSlice[i + 1].
unmarshalLoop(f, g) ==
    LET e == Encoder(f.enc)
        v == f.mnemonicSlice[f.i + 1]
    IN  IF f.i >= Len(f.mnemonicSlice) THEN unmarshalCheck(f, g)
        ELSE IF v \notin DOMAIN e.wordMap THEN return(f, g, nil, ErrMnemonicWordInvalid)
        ELSE unmarshalWord(f, g, e.wordMap[v])

\* Faulty variant of newSeedReturn: the seed made of the words joined by single
\* spaces in place of the mnemonic as it was passed.
newSeedReturnFields(s) ==
    IF s.f.err # nilError THEN return(s.f, s.g, nil, s.f.err)
    ELSE return([s.f EXCEPT !.derived = @ + 1], s.g,
                createSeedHash(stringsJoin(stringsFields(s.f.arg.mnemonic), <<" ">>),
                               s.f.arg.password), nilError)

\* Encoder.NewSeed after its call of UnmarshalEntropy returned into s
\* (lines 161-165): the decoded value is dropped.
newSeedReturn(s) ==
    IF s.f.err # nilError THEN return(s.f, s.g, nil, s.f.err)
    ELSE return([s.f EXCEPT !.derived = @ + 1], s.g,
                createSeedHash(s.f.arg.mnemonic, s.f.arg.password), nilError)

\* A return of UnmarshalEntropy goes to its caller: out of the call, or back
\* into NewSeed.
unmarshalReturn(s) ==
    IF s.f.pc = "done" /\ s.f.fn = "NewSeed" THEN newSeedReturn(s) ELSE s

\* One step of the call in frame f.
Step(f, g) ==
    CASE f.pc = "newEntropy" -> newEntropy(f, g)
      [] f.pc = "marshalEntry" -> marshalEntry(f, g)
      [] f.pc = "marshalLoop" -> marshalLoop(f, g)
      [] f.pc = "unmarshalEntry" -> unmarshalReturn(unmarshalEntry(f, g))
      [] f.pc = "unmarshalLoop" -> unmarshalReturn(unmarshalLoop(f, g))

\* The call in frame f run to its return with no other call in between.
RECURSIVE RunFrom(_)
RunFrom(s) == IF s.f.pc = "done" THEN s ELSE RunFrom(Step(s.f, s.g))

Run(f, g) == RunFrom([f |-> f, g |-> g])

\* The package-level functions use DefaultEncoder (English).
NewEntropy(bitSize, rand, g) ==
    Run(Frame("NewEntropy", DefaultEncoder, Args(bitSize, rand, nil, EmptyString, EmptyString)), g)
MarshalEntropy(entropyArg, g) ==
    Run(Frame("MarshalEntropy", DefaultEncoder, Args(0, <<>>, entropyArg, EmptyString, EmptyString)), g)
UnmarshalEntropy(mnemonicArg, g) ==
    Run(Frame("UnmarshalEntropy", DefaultEncoder, Args(0, <<>>, nil, mnemonicArg, EmptyString)), g)
NewSeed(mnemonicArg, passwordArg, g) ==
    Run(Frame("NewSeed", DefaultEncoder, Args(0, <<>>, nil, mnemonicArg, passwordArg)), g)

----------------------------------------------------------------------------
(* Spec: one caller, one call at a time.  The caller generates or supplies *)
(* entropy, marshals it, may edit the mnemonic or type one, and hands the  *)
(* mnemonic to UnmarshalEntropy and NewSeed.                               *)

NumPatterns == 2

\* Byte i (from 0) of pattern k: pattern 1 is all zero.
PatternByte(k, i) == ((k - 1) * (37 * i + 255)) % 256
Pattern(k, n) == [i \in 1..n |-> PatternByte(k, i - 1)] \o <<>>

BitSizes == {0 - 32, 0, 96, 100, 128, 160, 192, 224, 256, 264, 288}
SuppliedLengths == {0, 12, 15, 16, 17, 20, 24, 28, 32, 36}
TypedWordCounts == {0, 11, 12, 13, 24, 25, 27}
Passwords == {EmptyString, <<"T", "R", "E", "Z", "O", "R">>}
\* What the caller may put between two words in place of one space
Separators ==
    << <<" ", "\t">>, <<verticalTab>>, <<noBreakSpace>>, <<nextLine, "\r">>, <<"\f", "U+3000">> >>
UnknownWords == {<<"z", "z", "z">>, <<"a", "a">>}

NoArgs == Args(0, <<>>, nil, EmptyString, EmptyString)
NoOrigin == [kind |-> "none", at |-> 0]

Init ==
    /\ bigInts = PackageBigInts
    /\ op = "none"
    /\ arg = NoArgs
    /\ ret = nil
    /\ err = nilError
    /\ hashed = 0
    /\ derived = 0
    /\ entropy = nil
    /\ mnemonic = EmptyString
    /\ origin = NoOrigin
    /\ frames = <<>>

\* What a call that ran to s leaves behind.
Returned(fn, s) ==
    /\ op' = fn
    /\ arg' = s.f.arg
    /\ ret' = s.f.ret
    /\ err' = s.f.err
    /\ hashed' = s.f.hashed
    /\ derived' = s.f.derived
    /\ bigInts' = s.g

\* The rand.Read the model draws: pattern k, delivering none, half or all of
\* the size bytes asked for.
Rand(k, size, part) == [n |-> (size * part) \div 2, bytes |-> Pattern(k, size)]

\* entropy, err := NewEntropy(bitSize)
CallNewEntropy ==
    \E bitSize \in BitSizes, k \in 1..NumPatterns, part \in {0, 1, 2} :
        /\ Returned("NewEntropy",
                    NewEntropy(bitSize, Rand(k, IF bitSize > 0 THEN bitSize \div 8 ELSE 0, part),
                               bigInts))
        /\ entropy' = ret'
        /\ mnemonic' = EmptyString
        /\ origin' = NoOrigin
        /\ UNCHANGED frames

\* The caller brings its own entropy, of any length.
SupplyEntropy ==
    \E n \in SuppliedLengths, k \in 1..NumPatterns :
        /\ entropy' = Pattern(k, n)
        /\ op' = "SupplyEntropy"
        /\ arg' = NoArgs
        /\ ret' = nil
        /\ err' = nilError
        /\ hashed' = 0
        /\ derived' = 0
        /\ mnemonic' = EmptyString
        /\ origin' = NoOrigin
        /\ UNCHANGED <<bigInts, frames>>

\* mnemonic, err := MarshalEntropy(entropy)
CallMarshalEntropy ==
    /\ op \in {"NewEntropy", "SupplyEntropy"}
    /\ Returned("MarshalEntropy", MarshalEntropy(entropy, bigInts))
    /\ mnemonic' = ret'
    /\ origin' = [kind |-> "marshal", at |-> 0]
    /\ UNCHANGED <<entropy, frames>>

\* The mnemonic with bit b (0 = least significant) of its encoded value
\* flipped, re-encoded through the word list.
FlipBit(m, b) ==
    LET w == stringsFields(m)
        k == Len(w) - (b \div 11)
        idx == English.wordMap[w[k]]
    IN  stringsJoin([w EXCEPT ![k] = English.wordList[xorBits(idx, Pow2(b % 11))]], <<" ">>)

\* The bits the caller may flip: every checksum bit, the lowest entropy bit
\* and the highest.
FlippedBits(m) ==
    LET wc == Len(stringsFields(m))
    IN  (0..(((wc * 11) % 32) - 1)) \cup {(wc * 11) % 32, wc * 11 - 1}

\* The caller edits the mnemonic it got from MarshalEntropy.
EditMnemonic ==
    /\ op = "MarshalEntropy"
    /\ err = nilError
    /\ LET w == stringsFields(mnemonic)
       IN  \/ \E b \in FlippedBits(mnemonic) :
                /\ mnemonic' = FlipBit(mnemonic, b)
                /\ origin' = [kind |-> "flip", at |-> b]
           \/ \E p \in {1, Len(w)}, u \in UnknownWords :
                /\ mnemonic' = stringsJoin([w EXCEPT ![p] = u], <<" ">>)
                /\ origin' = [kind |-> "unknown", at |-> p]
           \/ /\ mnemonic' = stringsJoin(SubSeq(w, 1, Len(w) - 1), <<" ">>)
              /\ origin' = [kind |-> "drop", at |-> Len(w)]
           \/ /\ mnemonic' = stringsJoin(Append(w, English.wordList[0]), <<" ">>)
              /\ origin' = [kind |-> "append", at |-> Len(w) + 1]
           \/ \E s \in 1..Len(Separators) :
                /\ mnemonic' = <<"\n">> \o stringsJoin(w, Separators[s]) \o <<" ">>
                /\ origin' = [kind |-> "space", at |-> s]
    /\ op' = "EditMnemonic"
    /\ UNCHANGED <<bigInts, arg, ret, err, hashed, derived, entropy, frames>>

\* The caller types a mnemonic: n times the same word, the last one possibly
\* not of the word list.
TypeMnemonic ==
    \E n \in TypedWordCounts, i \in {0, 2047}, u \in UnknownWords \cup {<<>>} :
        /\ n > 0 \/ u = <<>>
        /\ mnemonic' = stringsJoin([j \in 1..n |-> IF j = n /\ u # <<>> THEN u
                                                   ELSE English.wordList[i]], <<" ">>)
        /\ origin' = [kind |-> IF u = <<>> THEN "typed" ELSE "typedUnknown", at |-> n]
        /\ op' = "TypeMnemonic"
        /\ arg' = NoArgs
        /\ ret' = nil
        /\ err' = nilError
        /\ hashed' = 0
        /\ derived' = 0
        /\ entropy' = nil
        /\ UNCHANGED <<bigInts, frames>>

\* decoded, err := UnmarshalEntropy(mnemonic)
CallUnmarshalEntropy ==
    /\ op \in {"MarshalEntropy", "EditMnemonic", "TypeMnemonic"}
    /\ Returned("UnmarshalEntropy", UnmarshalEntropy(mnemonic, bigInts))
    /\ UNCHANGED <<entropy, mnemonic, origin, frames>>

\* seed, err := NewSeed(mnemonic, password)
CallNewSeed ==
    /\ op \in {"MarshalEntropy", "EditMnemonic", "TypeMnemonic"}
    /\ \E pw \in Passwords : Returned("NewSeed", NewSeed(mnemonic, pw, bigInts))
    /\ UNCHANGED <<entropy, mnemonic, origin, frames>>

Next ==
    \/ CallNewEntropy
    \/ SupplyEntropy
    \/ CallMarshalEntropy
    \/ EditMnemonic
    \/ TypeMnemonic
    \/ CallUnmarshalEntropy
    \/ CallNewSeed

Spec == Init /\ [][Next]_vars

----------------------------------------------------------------------------
(* SpecConc: goroutines calling the codec at the same time, each call      *)
(* advancing one Step at a time, every call sharing the package-level      *)
(* big.Int variables.                                                      *)

NumGoroutines == 2
Goroutines == 1..NumGoroutines

ConcEntropy == Pattern(2, 16)
ConcMnemonic == MarshalEntropy(ConcEntropy, PackageBigInts).f.ret
ConcPassword == <<"T", "R", "E", "Z", "O", "R">>

\* The calls a goroutine may make, on the same encoder and on another.
ConcCalls ==
    << Frame("MarshalEntropy", "English", Args(0, <<>>, ConcEntropy, EmptyString, EmptyString)),
       Frame("NewSeed", "English", Args(0, <<>>, nil, ConcMnemonic, ConcPassword)),
       Frame("UnmarshalEntropy", "Spanish", Args(0, <<>>, nil, ConcMnemonic, EmptyString)) >>

\* What call c returns when it runs alone.
Alone == [c \in 1..Len(ConcCalls) |-> Run(ConcCalls[c], PackageBigInts).f] \o <<>>

Idle == [call |-> 0, f |-> [pc |-> "idle"]]

InitConc ==
    /\ bigInts = PackageBigInts
    /\ op = "none"
    /\ arg = NoArgs
    /\ ret = nil
    /\ err = nilError
    /\ hashed = 0
    /\ derived = 0
    /\ entropy = nil
    /\ mnemonic = EmptyString
    /\ origin = NoOrigin
    /\ frames = [t \in Goroutines |-> Idle]

Running(t) == frames[t].f.pc \notin {"idle", "done"}

\* go call c, in goroutine t
Go(t, c) ==
    /\ ~Running(t)
    /\ frames' = [frames EXCEPT ![t] = [call |-> c, f |-> ConcCalls[c]]]
    /\ UNCHANGED <<bigInts, op, arg, ret, err, hashed, derived, entropy, mnemonic, origin>>

\* Goroutine t has run one step of its call, which led to s.
StepTo(t, s) ==
    /\ frames' = [frames EXCEPT ![t].f = s.f]
    /\ bigInts' = s.g
    /\ UNCHANGED <<op, arg, ret, err, hashed, derived, entropy, mnemonic, origin>>

StepCall(t) ==
    /\ Running(t)
    /\ StepTo(t, Step(frames[t].f, bigInts))

NextConc ==
    \/ \E t \in Goroutines, c \in 1..Len(ConcCalls) : Go(t, c)
    \/ \E t \in Goroutines : StepCall(t)

SpecConc == InitConc /\ [][NextConc]_vars

----------------------------------------------------------------------------
(* Properties.  They are stated on bit sequences, most significant bit     *)
(* first, and not on the big.Int arithmetic of the calls.                  *)

ValidEntropyBits == {128, 160, 192, 224, 256}
ValidWordCounts == {12, 15, 18, 21, 24}

\* The bits of the byte sequence b
bitsOf(b) ==
    [j \in 1..(8 * Len(b)) |-> (b[((j - 1) \div 8) + 1] \div Pow2(7 - ((j - 1) % 8))) % 2] \o <<>>

\* The number a sequence of at most 11 bits writes
RECURSIVE bitsValue(_)
bitsValue(bits) ==
    IF bits = <<>> THEN 0
    ELSE 2 * bitsValue(SubSeq(bits, 1, Len(bits) - 1)) + bits[Len(bits)]

\* The bytes a sequence of 8n bits writes
bytesOf(bits) ==
    [i \in 1..(Len(bits) \div 8) |-> bitsValue(SubSeq(bits, 8 * (i - 1) + 1, 8 * i))] \o <<>>

zeroBits(n) == [j \in 1..n |-> 0] \o <<>>

\* The first n bits of the hash of the bytes e
hashBits(e, n) == SubSeq(bitsOf(<<sha256Sum(e)[1]>>), 1, n)

\* The 11 bits of the index of each word, in word order
RECURSIVE indexBits(_, _)
indexBits(words, k) ==
    IF k = 0 THEN <<>>
    ELSE indexBits(words, k - 1)
         \o [j \in 1..11 |-> (English.wordMap[words[k]] \div Pow2(11 - j)) % 2]

\* The number of white-space delimited words of s
countWords(s) ==
    Cardinality({i \in 1..Len(s) : ~isSpace(s[i]) /\ (i = 1 \/ isSpace(s[i - 1]))})

\* The words of the mnemonic of the current state
Words == stringsFields(mnemonic)
KnownWords == \A k \in 1..Len(Words) : Words[k] \in DOMAIN English.wordMap

\* C4: MarshalEntropy and NewEntropy fail with ErrEntropyLengthInvalid exactly
\* when the bit length is not 128, 160, 192, 224 or 256.
C4_EntropyLength ==
    /\ op = "NewEntropy" =>
          ((err = ErrEntropyLengthInvalid) <=> (arg.bitSize \notin ValidEntropyBits))
    /\ op = "MarshalEntropy" =>
          ((err = ErrEntropyLengthInvalid) <=> (8 * Len(arg.entropy) \notin ValidEntropyBits))

C4_Witness ==
    /\ op = "NewEntropy"
    /\ arg.bitSize = 100
    /\ err = ErrEntropyLengthInvalid

\* C5: UnmarshalEntropy fails with ErrMnemonicLengthInvalid exactly when the
\* number of white-space delimited words is not a multiple of 3 or is outside
\* 12..24, whatever the words are.
C5_MnemonicLength ==
    op = "UnmarshalEntropy" =>
        ((err = ErrMnemonicLengthInvalid) <=> (countWords(arg.mnemonic) \notin ValidWordCounts))

C5_Witness ==
    /\ op = "UnmarshalEntropy"
    /\ origin.kind = "typed"
    /\ origin.at = 13
    /\ err = ErrMnemonicLengthInvalid

\* C6 as stated: a mnemonic with a word that is not in the word list makes
\* UnmarshalEntropy fail with ErrMnemonicWordInvalid, addChecksum not called.
C6_UnknownWordAlways ==
    (op = "UnmarshalEntropy" /\ ~KnownWords) =>
        (err = ErrMnemonicWordInvalid /\ hashed = 0)

\* C6 amended: a mnemonic of 12, 15, 18, 21 or 24 words, one of them not in
\* the word list, makes UnmarshalEntropy fail with ErrMnemonicWordInvalid,
\* addChecksum not called; with any other number of words the call fails with
\* ErrMnemonicLengthInvalid, the words not looked up.
C6_UnknownWord ==
    (op = "UnmarshalEntropy" /\ ~KnownWords) =>
        /\ hashed = 0
        /\ err = IF Len(Words) \in ValidWordCounts THEN ErrMnemonicWordInvalid
                 ELSE ErrMnemonicLengthInvalid

C6_Witness ==
    /\ op = "UnmarshalEntropy"
    /\ origin.kind = "unknown"
    /\ origin.at = 12
    /\ Len(Words) = 12
    /\ err = ErrMnemonicWordInvalid
    /\ hashed = 0

\* C9 as stated: whenever NewEntropy, MarshalEntropy, UnmarshalEntropy or
\* NewSeed returns an error, the value returned with it is empty.
C9_NoPartialOutput ==
    (op \in {"NewEntropy", "MarshalEntropy", "UnmarshalEntropy", "NewSeed"} /\ err # nilError)
        => ret = nil

\* The checksum bits of n bits of entropy
checksumBits(n) == n \div 32

\* C1: for entropy of 16, 20, 24, 28 or 32 bytes MarshalEntropy succeeds,
\* UnmarshalEntropy of the mnemonic it returned succeeds, and what it returns,
\* its low checksum bits dropped, is the entropy (left-padded with zero bits).
C1_RoundTrip ==
    LET n == 8 * Len(entropy)
        returned == bitsOf(ret)
    IN  /\ (op = "MarshalEntropy" /\ n \in ValidEntropyBits) => err = nilError
        /\ (op = "UnmarshalEntropy" /\ origin.kind = "marshal" /\ n \in ValidEntropyBits) =>
               /\ err = nilError
               /\ Len(returned) >= n + checksumBits(n)
               /\ SubSeq(returned, 1, Len(returned) - checksumBits(n))
                    = zeroBits(Len(returned) - checksumBits(n) - n) \o bitsOf(entropy)

C1_Witness ==
    /\ op = "UnmarshalEntropy"
    /\ origin.kind = "marshal"
    /\ entropy = Pattern(2, 32)
    /\ err = nilError
    /\ Len(ret) = 33

\* C2: for valid entropy MarshalEntropy returns (bits + bits/32)/11 words, 12,
\* 15, 18, 21 or 24 of them, and the k-th word is the word of the list at the
\* k-th group of 11 bits of the entropy followed by the first bits/32 bits of
\* its hash; 16 zero bytes give the word 0 of the list eleven times.
C2_Words ==
    (op = "MarshalEntropy" /\ 8 * Len(entropy) \in ValidEntropyBits) =>
        LET n == 8 * Len(entropy)
            bits == bitsOf(entropy) \o hashBits(entropy, checksumBits(n))
            words == stringsFields(ret)
        IN  /\ err = nilError
            /\ Len(words) = (n + checksumBits(n)) \div 11
            /\ Len(words) \in ValidWordCounts
            /\ ret = stringsJoin(words, <<" ">>)
            /\ \A k \in 1..Len(words) :
                  words[k] = English.wordList[bitsValue(SubSeq(bits, 11 * (k - 1) + 1, 11 * k))]
            /\ entropy = zeroBits(16) =>
                  \A k \in 1..11 : words[k] = English.wordList[0]

C2_Witness ==
    /\ op = "MarshalEntropy"
    /\ entropy = zeroBits(16)
    /\ err = nilError
    /\ Len(stringsFields(ret)) = 12
    /\ stringsFields(ret)[11] = English.wordList[0]
    /\ stringsFields(ret)[12] # English.wordList[0]

\* C3: for a mnemonic of 12, 15, 18, 21 or 24 words of the word list,
\* UnmarshalEntropy succeeds exactly when the low checksum bits of the bits
\* of the word indices are the first bits of the hash of the bits before them,
\* and fails with ErrChecksumIncorrect otherwise; a valid mnemonic with one
\* of its checksum bits flipped fails with ErrChecksumIncorrect.
C3_Checksum ==
    (op = "UnmarshalEntropy" /\ Len(Words) \in ValidWordCounts /\ KnownWords) =>
        LET bits == indexBits(Words, Len(Words))
            cs == Len(Words) \div 3
            n == Len(bits) - cs
        IN  /\ (err = nilError) <=>
                  (SubSeq(bits, n + 1, n + cs) = hashBits(bytesOf(SubSeq(bits, 1, n)), cs))
            /\ err \in {nilError, ErrChecksumIncorrect}
            /\ (origin.kind = "flip" /\ origin.at < cs) => err = ErrChecksumIncorrect

C3_Witness ==
    /\ op = "UnmarshalEntropy"
    /\ origin.kind = "flip"
    /\ origin.at = 7
    /\ Len(Words) = 24
    /\ err = ErrChecksumIncorrect
    /\ hashed = 1

\* C7: on success UnmarshalEntropy returns the checksummed entropy: as many
\* bytes as fullByteSize (17, 21, 25, 29 or 33) that write the bits of the word
\* indices in word order, left-padded with zero bits.
C7_Returned ==
    (op = "UnmarshalEntropy" /\ err = nilError) =>
        LET wordCount == Len(Words)
            fullByteSize == ((wordCount * 11 - ((wordCount * 11) % 32)) \div 8) + 1
        IN  /\ Len(ret) = fullByteSize
            /\ fullByteSize \in {17, 21, 25, 29, 33}
            /\ bitsOf(ret) = zeroBits(8 * fullByteSize - 11 * wordCount)
                               \o indexBits(Words, wordCount)

C7_Witness ==
    /\ op = "UnmarshalEntropy"
    /\ err = nilError
    /\ Len(Words) = 15
    /\ Len(ret) = 21
    /\ ret[1] # 0

\* C8: NewSeed fails exactly when UnmarshalEntropy of the mnemonic fails, with
\* its error and no seed derived; otherwise it returns the key derived from
\* the mnemonic as it was passed, with the salt "mnemonic" + password.
C8_NewSeed ==
    op = "NewSeed" =>
        /\ err = UnmarshalEntropy(arg.mnemonic, PackageBigInts).f.err
        /\ err # nilError => (ret = nil /\ derived = 0)
        /\ err = nilError =>
              /\ derived = 1
              /\ ret = <<"pbkdf2.Key", mnemonic,
                         <<"m", "n", "e", "m", "o", "n", "i", "c">> \o arg.password,
                         2048, 64, "sha512.New">>

C8_Witness ==
    /\ op = "NewSeed"
    /\ origin.kind = "space"
    /\ \E i \in 1..Len(mnemonic) : mnemonic[i] = verticalTab
    /\ arg.password = <<"T", "R", "E", "Z", "O", "R">>
    /\ err = nilError
    /\ derived = 1
    /\ ret[2] = mnemonic
    /\ mnemonic # stringsJoin(Words, <<" ">>)

\* C10: whatever the interleaving of the steps of concurrent MarshalEntropy,
\* UnmarshalEntropy and NewSeed calls, on one encoder or on two, the
\* package-level big.Int variables keep the values 1, 2, 2047 and 2048, and
\* each call returns what it returns when it runs alone.
C10_Concurrent ==
    /\ bigInts = PackageBigInts
    /\ \A t \in DOMAIN frames :
          frames[t].f.pc = "done" =>
              /\ frames[t].f.ret = Alone[frames[t].call].ret
              /\ frames[t].f.err = Alone[frames[t].call].err

\* A NewSeed call has returned its seed while a MarshalEntropy call and, with
\* more goroutines, every other call is between two steps of its loop.
C10_Witness ==
    /\ frames[1].f.pc = "done"
    /\ frames[1].call = 2
    /\ frames[1].f.err = nilError
    /\ frames[1].f.ret = Alone[2].ret
    /\ \A t \in Goroutines \ {1} : frames[t].f.pc = "marshalLoop" /\ frames[t].f.i = 5

====
